---- MODULE Spec2Model ----
(***************************************************************************)
(* The Telegram bridge of bot.py with its two-factor gate (lib/auth.py),   *)
(* persona registry, session store and audit side channel (lib/worker.py). *)
(*                                                                         *)
(* Handlers are coroutines on one event loop.  A handler runs atomically   *)
(* from one suspension point (an await on the network or on a child        *)
(* process) to the next; a handler suspended there is a task in `tasks`,   *)
(* and other updates may be handled before it resumes.                     *)
(*                                                                         *)
(* Text is a tuple of one-character strings, so that str.strip() and       *)
(* string equality are computed and not assumed.                           *)
(***************************************************************************)
EXTENDS Integers, Sequences, FiniteSets, TLC

\* ---------------------------------------------------------------- bounds
MaxTime == 20
MaxUuid == 2
MaxInFlight == 1
Racers == 2
MaxGuesses == 2

\* ------------------------------------------------------ program constants
ALLOWED_CHAT_ID == 1
TTL_MINUTES == 10
DATETIME_MIN == -1
CHUNK == 4000

\* ----------------------------------------------------------------- text
Digits == {"1", "2"}
Space == " "
Codes == {<<d>> : d \in Digits}

RECURSIVE LStrip(_)
LStrip(s) ==
    IF s # <<>> /\ Head(s) = Space THEN LStrip(Tail(s)) ELSE s

RECURSIVE RStrip(_)
RStrip(s) ==
    IF s # <<>> /\ s[Len(s)] = Space THEN RStrip(SubSeq(s, 1, Len(s) - 1)) ELSE s

Strip(s) == RStrip(LStrip(s))

\* The message texts the chat transport delivers: a code, a code with
\* whitespace around it, a wrong guess, and whitespace alone.  filters.TEXT
\* passes no message with an empty text.
Texts ==
    Codes
    \cup {<<Space>> \o c \o <<Space>> : c \in Codes}
    \cup {<<"1", "2">>, <<Space>>}

\* context.args joined, a photo caption: absent or present.
Words == {<<>>, <<"x">>}

ChatIds == {ALLOWED_CHAT_ID, ALLOWED_CHAT_ID + 1}

Commands ==
    {"start", "2fa", "agent", "agents", "restart", "status", "claude", "bash",
     "vorlesen", "newsession"}

\* ------------------------------------------------------------- personas
Persona(id, name, sp, model) ==
    [id |-> id, name |-> name, system_prompt |-> sp, model |-> model]

Coder == Persona("coder", "Coder", <<"s">>, <<"opus">>)
Writer == Persona("writer", "Writer", <<>>, <<>>)
Builtin == Persona("default", "Standard", <<>>, <<"opus">>)

\* agents.json: a default identifier and the personas in file order.
Configs ==
    { [default |-> "assistant", agents |-> <<Coder>>],
      [default |-> "writer", agents |-> <<Coder, Writer>>],
      [default |-> "assistant", agents |-> <<>>] }

\* The registry of the bridge as deployed here: the default identifier names
\* no persona of the file.
Deployed == [default |-> "assistant", agents |-> <<Coder>>]

AgentArgs == {"", "coder", "writer", "nobody"}

Keys(agents) == {agents[i].id : i \in 1..Len(agents)}

Lookup(agents, id) ==
    agents[CHOOSE i \in 1..Len(agents) : agents[i].id = id]

\* get_active_agent without the fallback to the first persona.
get_active_agent_nofallback(cfg, active) ==
    LET agent_id == IF "id" \in DOMAIN active THEN active["id"] ELSE cfg.default
    IN  IF agent_id \in Keys(cfg.agents) THEN Lookup(cfg.agents, agent_id)
        ELSE Builtin

get_active_agent(cfg, active) ==
    LET agent_id == IF "id" \in DOMAIN active THEN active["id"] ELSE cfg.default
    IN  IF agent_id \in Keys(cfg.agents) THEN Lookup(cfg.agents, agent_id)
        ELSE IF cfg.agents # <<>> THEN cfg.agents[1]
        ELSE Builtin

\* ------------------------------------------------------------- sessions
uuid4(n) == <<"uuid", ToString(n)>>

\* get_session_id that hands out a new token and does not save it.
get_session_id_unsaved(sess, agent_id, n) ==
    IF agent_id \notin DOMAIN sess
    THEN [sessions |-> sess, minted |-> n + 1, ret |-> uuid4(n + 1)]
    ELSE [sessions |-> sess, minted |-> n, ret |-> sess[agent_id]]

get_session_id_always_new(sess, agent_id, n) ==
    [sessions |-> [k \in DOMAIN sess \cup {agent_id} |->
                      IF k = agent_id THEN uuid4(n + 1) ELSE sess[k]],
     minted |-> n + 1,
     ret |-> uuid4(n + 1)]

get_session_id(sess, agent_id, n) ==
    IF agent_id \notin DOMAIN sess
    THEN [sessions |-> [k \in DOMAIN sess \cup {agent_id} |->
                            IF k = agent_id THEN uuid4(n + 1) ELSE sess[k]],
          minted |-> n + 1,
          ret |-> uuid4(n + 1)]
    ELSE [sessions |-> sess, minted |-> n, ret |-> sess[agent_id]]

\* reset_session that reports the reset and leaves the entry in the store.
reset_session_keeps(sess, agent_id) ==
    [sessions |-> sess, ret |-> agent_id \in DOMAIN sess]

\* reset_session that empties the store.
reset_session_drops_all(sess, agent_id) ==
    IF agent_id \in DOMAIN sess
    THEN [sessions |-> [k \in {} |-> <<>>], ret |-> TRUE]
    ELSE [sessions |-> sess, ret |-> FALSE]

reset_session(sess, agent_id) ==
    IF agent_id \in DOMAIN sess
    THEN [sessions |-> [k \in DOMAIN sess \ {agent_id} |-> sess[k]], ret |-> TRUE]
    ELSE [sessions |-> sess, ret |-> FALSE]

Arg(s) == <<s>>

\* build_claude_cmd that draws a session id of its own and stores nothing.
build_claude_cmd_unsaved(prompt, agent, sess, n, mcp) ==
    [sessions |-> sess,
     minted |-> n + 1,
     cmd |-> <<Arg("claude"), Arg("--print"), Arg("--session-id"), uuid4(n + 1),
               Arg("--dangerously-skip-permissions")>>
             \o (IF mcp THEN <<Arg("--mcp-config"), Arg("mcp_config.json")>>
                 ELSE <<>>)
             \o (IF agent.system_prompt # <<>>
                 THEN <<Arg("--system-prompt"), agent.system_prompt>> ELSE <<>>)
             \o (IF agent.model # <<>>
                 THEN <<Arg("--model"), agent.model>> ELSE <<>>)
             \o <<prompt>>]

\* build_claude_cmd that passes --model whether the persona has one or not.
build_claude_cmd_always_model(prompt, agent, sess, n, mcp) ==
    LET s == get_session_id(sess, agent.id, n)
    IN  [sessions |-> s.sessions,
         minted |-> s.minted,
         cmd |-> <<Arg("claude"), Arg("--print"), Arg("--session-id"), s.ret,
                   Arg("--dangerously-skip-permissions")>>
                 \o (IF mcp THEN <<Arg("--mcp-config"), Arg("mcp_config.json")>>
                     ELSE <<>>)
                 \o (IF agent.system_prompt # <<>>
                     THEN <<Arg("--system-prompt"), agent.system_prompt>> ELSE <<>>)
                 \o <<Arg("--model"), agent.model>>
                 \o <<prompt>>]

\* mcp: config/mcp_config.json exists.
build_claude_cmd(prompt, agent, sess, n, mcp) ==
    LET s == get_session_id(sess, agent.id, n)
    IN  [sessions |-> s.sessions,
         minted |-> s.minted,
         cmd |-> <<Arg("claude"), Arg("--print"), Arg("--session-id"), s.ret,
                   Arg("--dangerously-skip-permissions")>>
                 \o (IF mcp THEN <<Arg("--mcp-config"), Arg("mcp_config.json")>>
                     ELSE <<>>)
                 \o (IF agent.system_prompt # <<>>
                     THEN <<Arg("--system-prompt"), agent.system_prompt>> ELSE <<>>)
                 \o (IF agent.model # <<>>
                     THEN <<Arg("--model"), agent.model>> ELSE <<>>)
                 \o <<prompt>>]

\* ------------------------------------------------------ two-factor gate
TwoFactorAuth == [code |-> <<>>, expires |-> DATETIME_MIN, verified |-> FALSE]

generate_and_send_keep_on_failure(self, t, c, mailed) ==
    [self |-> IF mailed
              THEN [code |-> c, expires |-> t + TTL_MINUTES, verified |-> FALSE]
              ELSE self,
     ret |-> mailed]

\* c is what generate_code() drew, mailed what send_2fa_email returned.
generate_and_send(self, t, c, mailed) ==
    [self |-> [code |-> c, expires |-> t + TTL_MINUTES, verified |-> FALSE],
     ret |-> mailed]

check_code_strict_expiry(self, t, user_code) ==
    IF t >= self.expires THEN [self |-> self, ret |-> FALSE]
    ELSE IF Strip(user_code) = self.code
         THEN [self |-> [self EXCEPT !.verified = TRUE], ret |-> TRUE]
         ELSE [self |-> self, ret |-> FALSE]

\* check_code that throws the code away after a wrong guess.
check_code_burns(self, t, user_code) ==
    IF t > self.expires THEN [self |-> self, ret |-> FALSE]
    ELSE IF Strip(user_code) = self.code
         THEN [self |-> [self EXCEPT !.verified = TRUE], ret |-> TRUE]
         ELSE [self |-> [self EXCEPT !.code = <<>>], ret |-> FALSE]

check_code_clears(self, t, user_code) ==
    IF t > self.expires THEN [self |-> self, ret |-> FALSE]
    ELSE IF Strip(user_code) = self.code
         THEN [self |-> [self EXCEPT !.verified = TRUE], ret |-> TRUE]
         ELSE [self |-> [self EXCEPT !.verified = FALSE], ret |-> FALSE]

\* check_code that does not look at the expiry.
check_code_no_expiry(self, t, user_code) ==
    IF Strip(user_code) = self.code
    THEN [self |-> [self EXCEPT !.verified = TRUE], ret |-> TRUE]
    ELSE [self |-> self, ret |-> FALSE]

\* check_code that locks the code after a wrong guess: its expiry is put
\* back to the minimum.
check_code_locks_out(self, t, user_code) ==
    IF t > self.expires THEN [self |-> self, ret |-> FALSE]
    ELSE IF Strip(user_code) = self.code
         THEN [self |-> [self EXCEPT !.verified = TRUE], ret |-> TRUE]
         ELSE [self |-> [self EXCEPT !.expires = DATETIME_MIN], ret |-> FALSE]

check_code(self, t, user_code) ==
    IF t > self.expires THEN [self |-> self, ret |-> FALSE]
    ELSE IF Strip(user_code) = self.code
         THEN [self |-> [self EXCEPT !.verified = TRUE], ret |-> TRUE]
         ELSE [self |-> self, ret |-> FALSE]

\* is_expired that counts the minute of the expiry as expired.
is_expired_at_expiry(self, t) == t >= self.expires /\ ~self.verified

is_expired(self, t) == t > self.expires /\ ~self.verified

\* -------------------------------------------------------------- replies
\* A message to the chat: a fixed text, or the slice text[lo:hi] of an output.
Reply(m) == [msg |-> m, lo |-> 0, hi |-> 0]
Piece(lo, hi) == [msg |-> "chunk", lo |-> lo, hi |-> hi]

Min(a, b) == IF a < b THEN a ELSE b

\* split_send that steps through the full chunks only.
split_send_drops_tail(n, blank) ==
    IF blank THEN <<Reply("(keine Ausgabe)")>>
    ELSE [k \in 1..(n \div CHUNK) |->
              Piece((k - 1) * CHUNK, Min((k - 1) * CHUNK + CHUNK, n))]

\* split_send on a text of n characters, blank when it is whitespace only.
split_send(n, blank) ==
    IF blank THEN <<Reply("(keine Ausgabe)")>>
    ELSE [k \in 1..((n + CHUNK - 1) \div CHUNK) |->
              Piece((k - 1) * CHUNK, Min((k - 1) * CHUNK + CHUNK, n))]

OutLens == {0, 1, CHUNK, CHUNK + 1}

\* ---------------------------------------------------------------- state
VARIABLES
    booted,        \* post_init has run and polling has started
    config,        \* the content of config/agents.json
    tfa,           \* the TwoFactorAuth object of bot.py
    now,           \* datetime.now(), in minutes
    ACTIVE_AGENT,  \* the dict of bot.py: empty, or "id" -> persona identifier
    sessions,      \* the content of data/sessions.json
    minted,        \* how many uuid4() tokens were drawn so far
    tasks,         \* the suspended handlers
    sent,          \* the replies sent by the latest step, in order
    warned,        \* the warnings logged by the latest step
    audit,         \* the log_request calls of the latest step
    spawned        \* the processes started by the latest step

vars ==
    <<booted, config, tfa, now, ACTIVE_AGENT, sessions, minted, tasks, sent,
      warned, audit, spawned>>

core == <<tfa, ACTIVE_AGENT, sessions, minted>>

Slots == DOMAIN tasks

Idle == [pc |-> "idle", kind |-> "", prompt |-> <<>>, agent |-> Builtin, sid |-> <<>>]

Free == {s \in Slots : tasks[s].pc = "idle"}

Update(kind, chat, text, arg) ==
    [kind |-> kind, chat |-> chat, text |-> text, arg |-> arg]

Updates ==
    {Update(k, c, <<>>, "") :
        k \in {"start", "2fa", "agents", "restart", "status", "newsession"},
        c \in ChatIds}
    \cup {Update("agent", c, <<>>, a) : c \in ChatIds, a \in AgentArgs}
    \cup {Update(k, c, w, "") :
            k \in {"claude", "bash", "vorlesen", "photo"}, c \in ChatIds, w \in Words}
    \cup {Update("text", c, t, "") : c \in ChatIds, t \in Texts}

Init ==
    /\ booted = FALSE
    /\ config = Deployed
    /\ tfa = TwoFactorAuth
    /\ now = 0
    /\ ACTIVE_AGENT = [k \in {} |-> ""]
    /\ sessions = [k \in {} |-> <<>>]
    /\ minted = 0
    /\ tasks = [s \in 1..MaxInFlight |-> Idle]
    /\ sent = <<>>
    /\ warned = 0
    /\ audit = <<>>
    /\ spawned = <<>>

\* What one step gives out: replies, warnings, audit calls, processes.
Out(s, w, a, p) ==
    /\ sent' = s
    /\ warned' = w
    /\ audit' = a
    /\ spawned' = p

is_authorized(u) == u.chat = ALLOWED_CHAT_ID

\* log_request: the notification goes out, or its failure is logged and
\* swallowed.
AuditResults == {"sent", "failed"}

log_request(type, agent, result) == [type |-> type, agent |-> agent, result |-> result]

AuditWarnings(result) == IF result = "failed" THEN 1 ELSE 0

\* An unauthorized sender: one warning of is_authorized, nothing else.
Dropped ==
    /\ Out(<<>>, 1, <<>>, <<>>)
    /\ UNCHANGED <<booted, config, core, tasks, now>>

Locked ==
    /\ Out(<<Reply("locked")>>, 0, <<>>, <<>>)
    /\ UNCHANGED <<booted, config, core, tasks, now>>

\* The handler awaits the network: it is parked until a later step.
Suspend(kind, prompt, agent) ==
    /\ Free # {}
    /\ LET s == CHOOSE x \in Free : \A y \in Free : x <= y
       IN  tasks' = [tasks EXCEPT ![s] =
                        [pc |-> "typing", kind |-> kind, prompt |-> prompt,
                         agent |-> agent, sid |-> <<>>]]

\* The clock never runs backwards; a later read of it may see a later time.
LaterReads(t) == {x \in {t, t + TTL_MINUTES} : x <= MaxTime}

post_init ==
    /\ ~booted
    /\ booted' = TRUE
    /\ \E c \in Codes, mailed \in BOOLEAN :
          tfa' = generate_and_send(tfa, now, c, mailed).self
    /\ Out(<<>>, 0, <<>>, <<>>)
    /\ UNCHANGED <<config, now, ACTIVE_AGENT, sessions, minted, tasks>>

Tick ==
    /\ booted
    /\ now + TTL_MINUTES <= MaxTime
    /\ now' = now + TTL_MINUTES
    /\ Out(<<>>, 0, <<>>, <<>>)
    /\ UNCHANGED <<booted, config, core, tasks>>

cmd_2fa(u) ==
    /\ booted
    /\ u.kind = "2fa"
    /\ IF ~is_authorized(u) THEN Dropped
       ELSE \E c \in Codes, mailed \in BOOLEAN :
              LET g == generate_and_send(tfa, now, c, mailed)
              IN  /\ tfa' = g.self
                  /\ Out(<<Reply(IF g.ret THEN "code_sent" ELSE "send_failed")>>,
                         0, <<>>, <<>>)
                  /\ UNCHANGED <<booted, config, ACTIVE_AGENT, sessions, minted, tasks, now>>

\* The text filter of group -1 stops the update: the sender is authorized,
\* the gate is not verified and the text is not blank.
InterceptsVerified(u) ==
    /\ is_authorized(u)
    /\ Strip(u.text) # <<>>

Intercepts(u) ==
    /\ is_authorized(u)
    /\ ~tfa.verified
    /\ Strip(u.text) # <<>>

\* handle_2fa_check without its raise of ApplicationHandlerStop after a
\* success: the update goes on to handle_message, which now finds the gate
\* verified.
handle_2fa_check_forwards(u) ==
    /\ booted
    /\ u.kind = "text"
    /\ Intercepts(u)
    /\ LET chk == check_code(tfa, now, Strip(u.text))
           agent == get_active_agent(config, ACTIVE_AGENT)
       IN  /\ tfa' = chk.self
           /\ IF chk.ret
              THEN /\ now' = now
                   /\ Suspend("text", u.text, agent)
                   /\ \E result \in AuditResults :
                         Out(<<Reply("2fa_ok")>>, AuditWarnings(result),
                             <<log_request("Freitext", agent.name, result)>>, <<>>)
              ELSE /\ UNCHANGED tasks
                   /\ \E t2 \in LaterReads(now) :
                         /\ now' = t2
                         /\ Out(<<Reply(IF is_expired(chk.self, t2)
                                        THEN "expired" ELSE "wrong_code")>>,
                                2, <<>>, <<>>)
    /\ UNCHANGED <<booted, config, ACTIVE_AGENT, sessions, minted>>

\* check_code reads the clock; after a failure is_expired reads it again.
\* A failure logs one warning in check_code and one here.
handle_2fa_check(u) ==
    /\ booted
    /\ u.kind = "text"
    /\ Intercepts(u)
    /\ LET chk == check_code(tfa, now, Strip(u.text))
       IN  /\ tfa' = chk.self
           /\ IF chk.ret
              THEN /\ now' = now
                   /\ Out(<<Reply("2fa_ok")>>, 0, <<>>, <<>>)
              ELSE \E t2 \in LaterReads(now) :
                     /\ now' = t2
                     /\ Out(<<Reply(IF is_expired(chk.self, t2)
                                    THEN "expired" ELSE "wrong_code")>>,
                            2, <<>>, <<>>)
    /\ UNCHANGED <<booted, config, ACTIVE_AGENT, sessions, minted, tasks>>

\* handle_message after a handle_2fa_check that stops the stranger's text:
\* the sender is checked, and the warning logged, once.
handle_message_one_warning(u) ==
    /\ booted
    /\ u.kind = "text"
    /\ ~Intercepts(u)
    /\ IF ~is_authorized(u)
       THEN /\ Out(<<>>, 1, <<>>, <<>>)
            /\ UNCHANGED <<core, tasks, now>>
       ELSE IF ~tfa.verified
       THEN /\ Out(<<>>, 0, <<>>, <<>>)
            /\ UNCHANGED <<core, tasks, now>>
       ELSE \E result \in AuditResults :
              LET agent == get_active_agent(config, ACTIVE_AGENT)
              IN  /\ Suspend("text", u.text, agent)
                  /\ Out(<<>>, AuditWarnings(result),
                         <<log_request("Freitext", agent.name, result)>>, <<>>)
                  /\ UNCHANGED <<core, now>>
    /\ UNCHANGED <<booted, config>>

\* A text that handle_2fa_check let pass reaches handle_message.  For a
\* stranger's text both handlers have called is_authorized: two warnings.
handle_message(u) ==
    /\ booted
    /\ u.kind = "text"
    /\ ~Intercepts(u)
    /\ IF ~is_authorized(u)
       THEN /\ Out(<<>>, 2, <<>>, <<>>)
            /\ UNCHANGED <<core, tasks, now>>
       ELSE IF ~tfa.verified
       THEN /\ Out(<<>>, 0, <<>>, <<>>)
            /\ UNCHANGED <<core, tasks, now>>
       ELSE \E result \in AuditResults :
              LET agent == get_active_agent(config, ACTIVE_AGENT)
              IN  /\ Suspend("text", u.text, agent)
                  /\ Out(<<>>, AuditWarnings(result),
                         <<log_request("Freitext", agent.name, result)>>, <<>>)
                  /\ UNCHANGED <<core, now>>
    /\ UNCHANGED <<booted, config>>

\* cmd_start in which a failed notification is raised to the handler: the
\* help text is not sent.
cmd_start_audit_raises(u) ==
    /\ booted
    /\ u.kind = "start"
    /\ IF ~is_authorized(u) THEN Dropped
       ELSE IF ~tfa.verified THEN Locked
       ELSE \E result \in AuditResults :
              LET agent == get_active_agent(config, ACTIVE_AGENT)
              IN  /\ Out(IF result = "failed" THEN <<>> ELSE <<Reply("help")>>,
                         AuditWarnings(result),
                         <<log_request("/start", agent.name, result)>>, <<>>)
                  /\ UNCHANGED <<booted, config, core, tasks, now>>

cmd_start(u) ==
    /\ booted
    /\ u.kind = "start"
    /\ IF ~is_authorized(u) THEN Dropped
       ELSE IF ~tfa.verified THEN Locked
       ELSE \E result \in AuditResults :
              LET agent == get_active_agent(config, ACTIVE_AGENT)
              IN  /\ Out(<<Reply("help")>>, AuditWarnings(result),
                         <<log_request("/start", agent.name, result)>>, <<>>)
                  /\ UNCHANGED <<booted, config, core, tasks, now>>

cmd_status_ungated(u) ==
    /\ booted
    /\ u.kind = "status"
    /\ IF ~is_authorized(u) THEN Dropped
       ELSE \E result \in AuditResults :
              LET agent == get_active_agent(config, ACTIVE_AGENT)
              IN  /\ Out(<<Reply("status")>>, AuditWarnings(result),
                         <<log_request("/status", agent.name, result)>>, <<>>)
                  /\ UNCHANGED <<booted, config, core, tasks, now>>

cmd_status(u) ==
    /\ booted
    /\ u.kind = "status"
    /\ IF ~is_authorized(u) THEN Dropped
       ELSE IF ~tfa.verified THEN Locked
       ELSE \E result \in AuditResults :
              LET agent == get_active_agent(config, ACTIVE_AGENT)
              IN  /\ Out(<<Reply("status")>>, AuditWarnings(result),
                         <<log_request("/status", agent.name, result)>>, <<>>)
                  /\ UNCHANGED <<booted, config, core, tasks, now>>

\* The list of personas; no log_request is made.
cmd_agents(u) ==
    /\ booted
    /\ u.kind = "agents"
    /\ IF ~is_authorized(u) THEN Dropped
       ELSE IF ~tfa.verified THEN Locked
       ELSE /\ Out(<<Reply("agents")>>, 0, <<>>, <<>>)
            /\ UNCHANGED <<booted, config, core, tasks, now>>

\* cmd_agent that takes the identifier without looking it up.
cmd_agent_unchecked(u) ==
    /\ booted
    /\ u.kind = "agent"
    /\ IF ~is_authorized(u) THEN Dropped
       ELSE IF ~tfa.verified THEN Locked
       ELSE IF u.arg = ""
       THEN /\ Out(<<Reply("agents")>>, 0, <<>>, <<>>)
            /\ UNCHANGED <<booted, config, core, tasks, now>>
       ELSE \E result \in AuditResults :
              /\ ACTIVE_AGENT' = [k \in {"id"} |-> u.arg]
              /\ Out(<<Reply("agent_switched")>>, AuditWarnings(result),
                     <<log_request("/agent", u.arg, result)>>, <<>>)
              /\ UNCHANGED <<booted, config, tfa, sessions, minted, tasks, now>>

cmd_agent_anyone(u) ==
    /\ booted
    /\ u.kind = "agent"
    /\ IF ~tfa.verified THEN Locked
       ELSE IF u.arg = ""
       THEN /\ Out(<<Reply("agents")>>, 0, <<>>, <<>>)
            /\ UNCHANGED <<booted, config, core, tasks, now>>
       ELSE IF u.arg \notin Keys(config.agents)
       THEN /\ Out(<<Reply("agent_not_found")>>, 0, <<>>, <<>>)
            /\ UNCHANGED <<booted, config, core, tasks, now>>
       ELSE \E result \in AuditResults :
              /\ ACTIVE_AGENT' = [k \in {"id"} |-> u.arg]
              /\ Out(<<Reply("agent_switched")>>, AuditWarnings(result),
                     <<log_request("/agent", Lookup(config.agents, u.arg).name, result)>>,
                     <<>>)
              /\ UNCHANGED <<booted, config, tfa, sessions, minted, tasks, now>>

\* Without an argument cmd_agent calls cmd_agents, which checks the sender
\* and the gate again and lists the personas.
cmd_agent(u) ==
    /\ booted
    /\ u.kind = "agent"
    /\ IF ~is_authorized(u) THEN Dropped
       ELSE IF ~tfa.verified THEN Locked
       ELSE IF u.arg = ""
       THEN /\ Out(<<Reply("agents")>>, 0, <<>>, <<>>)
            /\ UNCHANGED <<booted, config, core, tasks, now>>
       ELSE IF u.arg \notin Keys(config.agents)
       THEN /\ Out(<<Reply("agent_not_found")>>, 0, <<>>, <<>>)
            /\ UNCHANGED <<booted, config, core, tasks, now>>
       ELSE \E result \in AuditResults :
              /\ ACTIVE_AGENT' = [k \in {"id"} |-> u.arg]
              /\ Out(<<Reply("agent_switched")>>, AuditWarnings(result),
                     <<log_request("/agent", Lookup(config.agents, u.arg).name, result)>>,
                     <<>>)
              /\ UNCHANGED <<booted, config, tfa, sessions, minted, tasks, now>>

cmd_newsession(u) ==
    /\ booted
    /\ u.kind = "newsession"
    /\ IF ~is_authorized(u) THEN Dropped
       ELSE IF ~tfa.verified THEN Locked
       ELSE \E result \in AuditResults :
              LET agent == get_active_agent(config, ACTIVE_AGENT)
                  r == reset_session(sessions, agent.id)
              IN  /\ sessions' = r.sessions
                  /\ Out(<<Reply(IF r.ret THEN "session_reset" ELSE "no_session")>>,
                         AuditWarnings(result),
                         <<log_request("/newsession", agent.name, result)>>, <<>>)
                  /\ UNCHANGED <<booted, config, tfa, ACTIVE_AGENT, minted, tasks, now>>

\* "Bot wird neu gestartet..." is sent, and the handler is parked on that
\* send before it looks for start.sh.
cmd_restart(u) ==
    /\ booted
    /\ u.kind = "restart"
    /\ IF ~is_authorized(u) THEN Dropped
       ELSE IF ~tfa.verified THEN Locked
       ELSE \E result \in AuditResults :
              /\ Suspend("restart", <<>>, Builtin)
              /\ Out(<<Reply("restarting")>>, AuditWarnings(result),
                     <<log_request("/restart", "System", result)>>, <<>>)
              /\ UNCHANGED <<booted, config, core, now>>

cmd_vorlesen(u) ==
    /\ booted
    /\ u.kind = "vorlesen"
    /\ IF ~is_authorized(u) THEN Dropped
       ELSE IF ~tfa.verified THEN Locked
       ELSE IF u.text = <<>>
       THEN /\ Out(<<Reply("usage")>>, 0, <<>>, <<>>)
            /\ UNCHANGED <<booted, config, core, tasks, now>>
       ELSE \E result \in AuditResults :
              /\ Suspend("vorlesen", u.text, Builtin)
              /\ Out(<<>>, AuditWarnings(result),
                     <<log_request("/vorlesen", "TTS", result)>>, <<>>)
              /\ UNCHANGED <<booted, config, core, now>>

cmd_claude(u) ==
    /\ booted
    /\ u.kind = "claude"
    /\ IF ~is_authorized(u) THEN Dropped
       ELSE IF ~tfa.verified THEN Locked
       ELSE IF u.text = <<>>
       THEN /\ Out(<<Reply("usage")>>, 0, <<>>, <<>>)
            /\ UNCHANGED <<booted, config, core, tasks, now>>
       ELSE \E result \in AuditResults :
              LET agent == get_active_agent(config, ACTIVE_AGENT)
              IN  /\ Suspend("claude", u.text, agent)
                  /\ Out(<<>>, AuditWarnings(result),
                         <<log_request("/claude", agent.name, result)>>, <<>>)
                  /\ UNCHANGED <<booted, config, core, now>>

cmd_bash(u) ==
    /\ booted
    /\ u.kind = "bash"
    /\ IF ~is_authorized(u) THEN Dropped
       ELSE IF ~tfa.verified THEN Locked
       ELSE IF u.text = <<>>
       THEN /\ Out(<<Reply("usage")>>, 0, <<>>, <<>>)
            /\ UNCHANGED <<booted, config, core, tasks, now>>
       ELSE \E result \in AuditResults :
              /\ Suspend("bash", u.text, Builtin)
              /\ Out(<<>>, AuditWarnings(result),
                     <<log_request("/bash", "System", result)>>, <<>>)
              /\ UNCHANGED <<booted, config, core, now>>

DefaultCaption == <<"Analysiere dieses Bild detailliert. Beschreibe was du siehst.">>

PhotoPrompt(caption) ==
    <<"Lies die Bilddatei">> \o (IF caption = <<>> THEN DefaultCaption ELSE caption)

handle_photo(u) ==
    /\ booted
    /\ u.kind = "photo"
    /\ IF ~is_authorized(u) THEN Dropped
       ELSE IF ~tfa.verified THEN Locked
       ELSE \E result \in AuditResults :
              LET agent == get_active_agent(config, ACTIVE_AGENT)
              IN  /\ Suspend("photo", PhotoPrompt(u.text), agent)
                  /\ Out(<<>>, AuditWarnings(result),
                         <<log_request("Foto", agent.name, result)>>, <<>>)
                  /\ UNCHANGED <<booted, config, core, now>>

\* ------------------------------------------------- the resumed handlers
Retire(t) == tasks' = [tasks EXCEPT ![t] = Idle]

\* The handler waits for its process; of its locals only the kind decides
\* what it does next, sid is the session the process was given.
Running(task, sid) ==
    [pc |-> "wait", kind |-> task.kind, prompt |-> <<>>, agent |-> task.agent,
     sid |-> sid]

Launches == {"started", "FileNotFoundError", "Exception"}

\* claude_launch_on that takes the session of the persona the pointer names
\* when the handler resumes, with system prompt and model of the persona it
\* had resolved before.
claude_launch_on_active_session(t, launch) ==
    /\ tasks[t].pc = "typing"
    /\ tasks[t].kind \in {"claude", "text"}
    /\ \E mcp \in BOOLEAN :
       LET late == [tasks[t].agent EXCEPT
                       !.id = get_active_agent(config, ACTIVE_AGENT).id]
           b == build_claude_cmd(tasks[t].prompt, late, sessions, minted, mcp)
       IN  /\ b.minted <= MaxUuid
           /\ sessions' = b.sessions
           /\ minted' = b.minted
           /\ IF launch = "started"
              THEN /\ tasks' = [tasks EXCEPT ![t] = Running(tasks[t], b.cmd[4])]
                   /\ Out(<<>>, 0, <<>>, <<b.cmd>>)
              ELSE /\ Retire(t)
                   /\ Out(<<Reply(IF launch = "FileNotFoundError"
                                  THEN "tool_not_found" ELSE "error")>>,
                          0, <<>>, <<>>)
    /\ UNCHANGED <<booted, config, tfa, ACTIVE_AGENT, now>>

\* cmd_claude and handle_message after send_action: build_claude_cmd, then
\* create_subprocess_exec starts the process or raises what launch names.
claude_launch_on(t, launch) ==
    /\ tasks[t].pc = "typing"
    /\ tasks[t].kind \in {"claude", "text"}
    /\ \E mcp \in BOOLEAN :
       LET b == build_claude_cmd(tasks[t].prompt, tasks[t].agent, sessions, minted, mcp)
       IN  /\ b.minted <= MaxUuid
           /\ sessions' = b.sessions
           /\ minted' = b.minted
           /\ IF launch = "started"
              THEN /\ tasks' = [tasks EXCEPT ![t] = Running(tasks[t], b.cmd[4])]
                   /\ Out(<<>>, 0, <<>>, <<b.cmd>>)
              ELSE /\ Retire(t)
                   /\ Out(<<Reply(IF launch = "FileNotFoundError"
                                  THEN "tool_not_found" ELSE "error")>>,
                          0, <<>>, <<>>)
    /\ UNCHANGED <<booted, config, tfa, ACTIVE_AGENT, now>>

claude_launch(t) == \E launch \in Launches : claude_launch_on(t, launch)

\* photo.get_file() and file.download_to_drive(): both return, or one raises.
Fetches == {"fetched", "get_file", "download_to_drive"}

\* handle_photo after send_action.  get_file is awaited before the try
\* block: what it raises ends the handler unanswered.  Inside the block the
\* file is stored, the process is built and started; there is no clause for
\* FileNotFoundError, so every exception gets the one reply.
photo_launch_on(t, fetch, launch) ==
    /\ tasks[t].pc = "typing"
    /\ tasks[t].kind = "photo"
    /\ IF fetch = "get_file"
       THEN /\ Retire(t)
            /\ Out(<<>>, 0, <<>>, <<>>)
            /\ UNCHANGED <<sessions, minted>>
       ELSE IF fetch = "download_to_drive"
       THEN /\ Retire(t)
            /\ Out(<<Reply("error")>>, 0, <<>>, <<>>)
            /\ UNCHANGED <<sessions, minted>>
       ELSE \E mcp \in BOOLEAN :
            LET b == build_claude_cmd(tasks[t].prompt, tasks[t].agent, sessions, minted, mcp)
            IN  /\ b.minted <= MaxUuid
                /\ sessions' = b.sessions
                /\ minted' = b.minted
                /\ IF launch = "started"
                   THEN /\ tasks' = [tasks EXCEPT ![t] = Running(tasks[t], b.cmd[4])]
                        /\ Out(<<>>, 0, <<>>, <<b.cmd>>)
                   ELSE /\ Retire(t)
                        /\ Out(<<Reply("error")>>, 0, <<>>, <<>>)
    /\ UNCHANGED <<booted, config, tfa, ACTIVE_AGENT, now>>

photo_launch(t) ==
    \E fetch \in Fetches, launch \in Launches : photo_launch_on(t, fetch, launch)

\* cmd_bash after send_action: create_subprocess_shell.
bash_launch(t) ==
    /\ tasks[t].pc = "typing"
    /\ tasks[t].kind = "bash"
    /\ \E started \in BOOLEAN :
          IF started
          THEN /\ tasks' = [tasks EXCEPT ![t] = Running(tasks[t], <<>>)]
               /\ Out(<<>>, 0, <<>>, <<<<Arg("/bin/sh"), Arg("-c"), tasks[t].prompt>>>>)
          ELSE /\ Retire(t)
               /\ Out(<<Reply("error")>>, 0, <<>>, <<>>)
    /\ UNCHANGED <<booted, config, core, now>>

Ends == {"output", "timeout", "Exception"}

\* process_done_on that relays what the process had written before the
\* timeout.
process_done_partial(t, end) ==
    /\ tasks[t].pc = "wait"
    /\ Retire(t)
    /\ IF end = "output"
       THEN \E n \in OutLens : Out(split_send(n, n = 0), 0, <<>>, <<>>)
       ELSE IF end = "timeout"
       THEN Out(<<Piece(0, 1), Reply("timeout")>>, 0, <<>>, <<>>)
       ELSE Out(<<Reply("error")>>, 0, <<>>, <<>>)
    /\ UNCHANGED <<booted, config, core, now>>

\* wait_for(proc.communicate()) returns the output, runs into the timeout,
\* or raises; the output goes through split_send.
process_done_on(t, end) ==
    /\ tasks[t].pc = "wait"
    /\ Retire(t)
    /\ IF end = "output"
       THEN \E n \in OutLens : Out(split_send(n, n = 0), 0, <<>>, <<>>)
       ELSE Out(<<Reply(IF end = "timeout" THEN "timeout" ELSE "error")>>,
                0, <<>>, <<>>)
    /\ UNCHANGED <<booted, config, core, now>>

process_done(t) == \E end \in Ends : process_done_on(t, end)

\* cmd_vorlesen after send_action: the voice note, or the error reply.
vorlesen_speak(t) ==
    /\ tasks[t].pc = "typing"
    /\ tasks[t].kind = "vorlesen"
    /\ Retire(t)
    /\ \E spoken \in BOOLEAN :
          Out(<<Reply(IF spoken THEN "voice" ELSE "error")>>, 0, <<>>, <<>>)
    /\ UNCHANGED <<booted, config, core, now>>

\* cmd_restart after its first reply: start.sh is started detached, or is
\* missing.  What start.sh then does to the process is not part of bot.py.
restart_exec(t) ==
    /\ tasks[t].pc = "typing"
    /\ tasks[t].kind = "restart"
    /\ Retire(t)
    /\ \E exists \in BOOLEAN :
          IF exists
          THEN Out(<<>>, 0, <<>>, <<<<Arg("/bin/bash"), Arg("start.sh")>>>>)
          ELSE Out(<<Reply("no_start_sh")>>, 0, <<>>, <<>>)
    /\ UNCHANGED <<booted, config, core, now>>

\* -------------------------------------------------------- specification
\* One inbound update goes to the handlers registered for it in main().
Dispatch(u) ==
    \/ cmd_start(u)
    \/ cmd_2fa(u)
    \/ cmd_agent(u)
    \/ cmd_agents(u)
    \/ cmd_restart(u)
    \/ cmd_status(u)
    \/ cmd_claude(u)
    \/ cmd_bash(u)
    \/ cmd_vorlesen(u)
    \/ cmd_newsession(u)
    \/ handle_photo(u)
    \/ handle_2fa_check(u)
    \/ handle_message(u)

\* The same registrations, looked up by the kind of the update.
Registered(u) ==
    CASE u.kind = "start" -> cmd_start(u)
      [] u.kind = "2fa" -> cmd_2fa(u)
      [] u.kind = "agent" -> cmd_agent(u)
      [] u.kind = "agents" -> cmd_agents(u)
      [] u.kind = "restart" -> cmd_restart(u)
      [] u.kind = "status" -> cmd_status(u)
      [] u.kind = "claude" -> cmd_claude(u)
      [] u.kind = "bash" -> cmd_bash(u)
      [] u.kind = "vorlesen" -> cmd_vorlesen(u)
      [] u.kind = "newsession" -> cmd_newsession(u)
      [] u.kind = "photo" -> handle_photo(u)
      [] u.kind = "text" -> handle_2fa_check(u) \/ handle_message(u)

\* A suspended handler goes on.
Resume(t) ==
    \/ claude_launch(t)
    \/ photo_launch(t)
    \/ bash_launch(t)
    \/ process_done(t)
    \/ vorlesen_speak(t)
    \/ restart_exec(t)

\* Every step of the bridge, each update taken by its registered handler:
\* the steps of Next, as the properties below name them.
AnyStep ==
    \/ post_init
    \/ Tick
    \/ \E u \in Updates : Registered(u)
    \/ \E t \in 1..MaxInFlight : Resume(t)

Next ==
    \/ post_init
    \/ Tick
    \/ \E u \in Updates :
          \/ cmd_start(u)
          \/ cmd_2fa(u)
          \/ cmd_agent(u)
          \/ cmd_agents(u)
          \/ cmd_restart(u)
          \/ cmd_status(u)
          \/ cmd_claude(u)
          \/ cmd_bash(u)
          \/ cmd_vorlesen(u)
          \/ cmd_newsession(u)
          \/ handle_photo(u)
          \/ handle_2fa_check(u)
          \/ handle_message(u)
    \/ \E t \in 1..MaxInFlight :
          \/ claude_launch(t)
          \/ photo_launch(t)
          \/ bash_launch(t)
          \/ process_done(t)
          \/ vorlesen_speak(t)
          \/ restart_exec(t)

Spec == Init /\ [][Next]_vars

\* The bridge started on any of the registries: one persona and a default
\* that names none, two personas, no persona at all.
InitAgents ==
    /\ booted = FALSE
    /\ config \in Configs
    /\ tfa = TwoFactorAuth
    /\ now = 0
    /\ ACTIVE_AGENT = [k \in {} |-> ""]
    /\ sessions = [k \in {} |-> <<>>]
    /\ minted = 0
    /\ tasks = [s \in 1..MaxInFlight |-> Idle]
    /\ sent = <<>>
    /\ warned = 0
    /\ audit = <<>>
    /\ spawned = <<>>

SpecAgents == InitAgents /\ [][Next]_vars

\* Two handlers in flight.  The chat sends what reaches the session store:
\* codes and prompts as text, /claude, photos, /newsession, /2fa.
InitRace ==
    /\ booted = FALSE
    /\ config = Deployed
    /\ tfa = TwoFactorAuth
    /\ now = 0
    /\ ACTIVE_AGENT = [k \in {} |-> ""]
    /\ sessions = [k \in {} |-> <<>>]
    /\ minted = 0
    /\ tasks = [s \in 1..Racers |-> Idle]
    /\ sent = <<>>
    /\ warned = 0
    /\ audit = <<>>
    /\ spawned = <<>>

NextRace ==
    \/ post_init
    \/ Tick
    \/ \E u \in Updates :
          \/ cmd_2fa(u)
          \/ cmd_claude(u)
          \/ cmd_newsession(u)
          \/ handle_photo(u)
          \/ handle_2fa_check(u)
          \/ handle_message(u)
    \/ \E t \in 1..Racers :
          \/ claude_launch(t)
          \/ photo_launch(t)
          \/ process_done(t)

SpecRace == InitRace /\ [][NextRace]_vars

\* The event loop resumes a suspended handler once what it awaits is done:
\* the chat transport answers, and the process returns or wait_for runs
\* into its timeout.
SpecLive ==
    Init /\ [][Next]_vars /\ WF_vars(\E t \in 1..MaxInFlight : Resume(t))

\* ---------------------------------------------------------- properties
\* What a user may type as a code: every message text, and nothing at all.
Inputs == Texts \cup {<<>>}

Gate == <<tfa, ACTIVE_AGENT, sessions, minted, tasks>>

ThreeOutcomes == {<<Reply("2fa_ok")>>, <<Reply("wrong_code")>>, <<Reply("expired")>>}

Regenerations == {<<Reply("code_sent")>>, <<Reply("send_failed")>>}

\* C1: check_code succeeds if and only if the input, trimmed, equals the
\* stored code and the time of the check is not after the expiry; a check at
\* the expiry instant itself succeeds.  Stated of the function in every
\* reachable gate state, and of the call handle_2fa_check makes: in no
\* reachable state can handle_2fa_check take a step that answers otherwise.
C1_CheckCodeIff ==
    /\ \A inp \in Inputs :
          check_code(tfa, now, inp).ret
              <=> (Strip(inp) = tfa.code /\ now <= tfa.expires)
    /\ \A u \in Updates :
          ~ENABLED (/\ handle_2fa_check(u)
                    /\ ~((sent' = <<Reply("2fa_ok")>>)
                            <=> (Strip(u.text) = tfa.code /\ now <= tfa.expires)))

\* A padded or plain code was accepted at the very minute of the expiry.
C1_AcceptedAtExpiry ==
    /\ sent = <<Reply("2fa_ok")>>
    /\ now = tfa.expires
    /\ tfa.verified

\* C2: after a check_code call that returned failure (the reply is "wrong
\* code" or "expired"), verified is false.
C2_FailureLeavesUnverified ==
    sent \in {<<Reply("wrong_code")>>, <<Reply("expired")>>} => ~tfa.verified

\* A wrong guess was refused while the code was still valid.
C2_WrongGuessRefused ==
    /\ sent = <<Reply("wrong_code")>>
    /\ now <= tfa.expires
    /\ ~tfa.verified

\* C3: once verified, the gate stays verified until generate_and_send is
\* called: from a verified gate no step but a /2fa of the authorized sender
\* can clear verified, and no check_code call at the present or a later
\* time, with whatever input, would clear it.
C3_VerifiedUntilRegenerated ==
    /\ tfa.verified =>
          ~ENABLED (/\ AnyStep
                    /\ ~tfa'.verified
                    /\ ~\E u \in Updates : is_authorized(u) /\ cmd_2fa(u))
    /\ tfa.verified =>
          \A inp \in Inputs, t \in now..MaxTime :
              check_code(tfa, t, inp).self.verified

\* The gate is still verified after the code's expiry has passed, and a
\* process was started then.
C3_VerifiedPastExpiry ==
    /\ tfa.verified
    /\ now > tfa.expires
    /\ spawned # <<>>

\* What every generate_and_send call leaves behind, old being the gate
\* before the call made at time t.
Replaced(old, new, t) ==
    /\ new.code \in Codes
    /\ new.expires = t + TTL_MINUTES
    /\ ~new.verified
    /\ old.code # new.code =>
          \A x \in 0..MaxTime : ~check_code(new, x, old.code).ret

\* C4: every generate_and_send call (at start-up and on /2fa), whether the
\* mail went out or not, stores a newly drawn code, an expiry ten minutes
\* from now and verified = false; the code it replaced, when different, is
\* no longer accepted.
C4_GenerateReplaces ==
    /\ ~ENABLED (post_init /\ ~Replaced(tfa, tfa', now))
    /\ \A u \in Updates :
          is_authorized(u) =>
              ~ENABLED (/\ cmd_2fa(u)
                        /\ ~(sent' \in Regenerations /\ Replaced(tfa, tfa', now)))

\* A /2fa well after start-up has armed a fresh code.
C4_Regenerated ==
    /\ sent = <<Reply("code_sent")>>
    /\ now > 0
    /\ tfa.expires = now + TTL_MINUTES
    /\ tfa.code \in Codes
    /\ ~tfa.verified

\* C5 as the claim states it: a /2fa whose mail failed leaves code, expiry
\* and verified as they were.
C5_FailureKeepsGate ==
    [][\A u \in Updates :
          (is_authorized(u) /\ cmd_2fa(u) /\ sent' = <<Reply("send_failed")>>)
              => tfa' = tfa]_vars

\* C5, amended: a /2fa whose mail failed leaves the gate as a call whose
\* mail went out would have: a new code, a new expiry, verified = false.  A
\* verified gate is locked by it, and the old expiry is gone.
C5_FailureStillReplaces ==
    \A u \in Updates :
        is_authorized(u) =>
            ~ENABLED (/\ cmd_2fa(u)
                      /\ sent' = <<Reply("send_failed")>>
                      /\ ~(/\ \E c \in Codes :
                                  tfa' = generate_and_send(tfa, now, c, TRUE).self
                           /\ tfa.verified => tfa' # tfa
                           /\ tfa.expires # now + TTL_MINUTES =>
                                 tfa'.expires # tfa.expires))

\* The mail failed, and the gate holds a code that expires ten minutes on.
C5_FailedButArmed ==
    /\ sent = <<Reply("send_failed")>>
    /\ now > 0
    /\ tfa.expires = now + TTL_MINUTES
    /\ ~tfa.verified

\* C6: an update of any kind from a chat other than ALLOWED_CHAT_ID is
\* answered by nothing and changes nothing: no reply, no audit call, no
\* process, the gate, the persona pointer, the session store and the
\* suspended handlers as before.
C6_UnauthorizedIsInert ==
    \A u \in Updates :
        ~is_authorized(u) =>
            ~ENABLED (/\ Dispatch(u)
                      /\ ~(/\ sent' = <<>>
                           /\ audit' = <<>>
                           /\ spawned' = <<>>
                           /\ UNCHANGED Gate))

\* A stranger's update was dropped while the gate was verified and a
\* persona had been chosen.
C6_StrangerDropped ==
    /\ warned > 0
    /\ sent = <<>>
    /\ audit = <<>>
    /\ tfa.verified
    /\ "id" \in DOMAIN ACTIVE_AGENT

\* C7 as the claim states it: while the gate is not verified, every text of
\* the authorized sender gets exactly one of the three replies and is not
\* handed on.
C7_EveryTextAnswered ==
    [][\A u \in Updates :
          (/\ u.kind = "text"
           /\ is_authorized(u)
           /\ ~tfa.verified
           /\ (handle_2fa_check(u) \/ handle_message(u))) =>
              /\ sent' \in ThreeOutcomes
              /\ tasks' = tasks
              /\ spawned' = <<>>]_vars

\* C7, amended: while the gate is not verified, a text of the authorized
\* sender that is not blank is checked with check_code and gets exactly one
\* of the three replies; a text of whitespace alone is neither checked nor
\* answered.  Neither is handed on as a prompt: no handler is suspended for
\* it, no audit call is made, no process is started.
C7_NonBlankTextAnswered ==
    \A u \in Updates :
        (u.kind = "text" /\ is_authorized(u) /\ ~tfa.verified) =>
            ~ENABLED (/\ handle_2fa_check(u) \/ handle_message(u)
                      /\ ~(/\ tasks' = tasks
                           /\ spawned' = <<>>
                           /\ audit' = <<>>
                           /\ UNCHANGED <<ACTIVE_AGENT, sessions, minted>>
                           /\ IF Strip(u.text) # <<>>
                              THEN /\ sent' \in ThreeOutcomes
                                   /\ tfa' = check_code(tfa, now, u.text).self
                                   /\ (sent' = <<Reply("2fa_ok")>>)
                                         <=> check_code(tfa, now, u.text).ret
                              ELSE /\ sent' = <<>>
                                   /\ tfa' = tfa))

\* The text that carried the right code unlocked the gate and went nowhere
\* else.
C7_CodeNotForwarded ==
    /\ sent = <<Reply("2fa_ok")>>
    /\ tfa.verified
    /\ audit = <<>>
    /\ \A s \in Slots : tasks[s].pc = "idle"

\* C8 as the claim states it: every command of the authorized sender, while
\* the gate is not verified, is answered "locked" and does nothing.
C8_EveryCommandLocked ==
    [][\A u \in Updates :
          (/\ u.kind \in Commands
           /\ is_authorized(u)
           /\ ~tfa.verified
           /\ Dispatch(u)) =>
              /\ sent' = <<Reply("locked")>>
              /\ spawned' = <<>>
              /\ UNCHANGED Gate]_vars

\* C8, amended: every command of the authorized sender but /2fa, while the
\* gate is not verified, is answered "locked" and does nothing.  /2fa is not
\* gated: it arms a new code and reports whether the mail went out, and
\* leaves pointer, sessions and suspended handlers alone.
C8_CommandsLockedBut2fa ==
    \A u \in Updates :
        (u.kind \in Commands /\ is_authorized(u) /\ ~tfa.verified) =>
            ~ENABLED (/\ Dispatch(u)
                      /\ ~(/\ spawned' = <<>>
                           /\ audit' = <<>>
                           /\ UNCHANGED <<ACTIVE_AGENT, sessions, minted, tasks>>
                           /\ IF u.kind = "2fa"
                              THEN /\ sent' \in Regenerations
                                   /\ ~tfa'.verified
                              ELSE /\ sent' = <<Reply("locked")>>
                                   /\ tfa' = tfa))

\* A command was refused after the code had expired unused.
C8_RefusedWhileLocked ==
    /\ sent = <<Reply("locked")>>
    /\ ~tfa.verified
    /\ now > tfa.expires
    /\ tfa.code \in Codes

C10_FailedLaunchMintsNothing ==
    [][\A t \in Slots :
          ((claude_launch(t) \/ photo_launch(t) \/ bash_launch(t))
              /\ spawned' = <<>>) =>
                  UNCHANGED <<tfa, ACTIVE_AGENT, sessions, minted>>]_vars

\* C10, amended: no step of a request to the assistant or the shell, failed
\* or not, changes the gate or the persona pointer, or changes or removes a
\* stored session token; the end of the process (output, timeout, error)
\* changes nothing at all.  But the launch step stores a token for the
\* request's persona when it had none, before the process is started, and
\* the token stays when the start fails.
C10_FailureFrame ==
    /\ \A u \in Updates :
          is_authorized(u) =>
              ~ENABLED (/\ \/ cmd_claude(u)
                           \/ cmd_bash(u)
                           \/ handle_photo(u)
                           \/ handle_message(u)
                        /\ ~(UNCHANGED <<tfa, ACTIVE_AGENT, sessions, minted>>))
    /\ \A t \in Slots :
          ~ENABLED (/\ Resume(t)
                    /\ ~(/\ UNCHANGED <<tfa, ACTIVE_AGENT>>
                         /\ \A k \in DOMAIN sessions :
                               k \in DOMAIN sessions' /\ sessions'[k] = sessions[k]
                         /\ DOMAIN sessions' \subseteq
                               DOMAIN sessions \cup {tasks[t].agent.id}
                         /\ process_done(t) => UNCHANGED <<sessions, minted>>))

\* The assistant's executable was missing, and a token is stored.
C10_TokenAfterFailedLaunch ==
    /\ sent = <<Reply("tool_not_found")>>
    /\ spawned = <<>>
    /\ DOMAIN sessions # {}
    /\ minted = 1

\* The identifiers a request can carry: the registered ones and the built-in.
PersonaIds == Keys(config.agents) \cup {Builtin.id}

\* The assistant's command line started by the latest step, if any.
AssistantStarted == spawned # <<>> /\ spawned[1][1] = Arg("claude")

\* C11: for every persona p, get_session_id(p) called twice in a row returns
\* the same token and the second call leaves the store alone; a call that
\* finds a token returns it and changes nothing.  Between two calls the
\* token stored for p changes by nothing but a reset of p (/newsession
\* while p is active), whatever is done for other personas, to the pointer or
\* to the gate; and a process started for p is given the token that was
\* stored for p.
C11_SameTokenUntilReset ==
    /\ [](\A p \in PersonaIds :
            LET a == get_session_id(sessions, p, minted)
                b == get_session_id(a.sessions, p, a.minted)
            IN  /\ b.ret = a.ret
                /\ b.sessions = a.sessions
                /\ b.minted = a.minted
                /\ p \in DOMAIN sessions =>
                      /\ a.ret = sessions[p]
                      /\ a.sessions = sessions
                      /\ a.minted = minted)
    /\ [][\A p \in DOMAIN sessions :
            \/ p \in DOMAIN sessions' /\ sessions'[p] = sessions[p]
            \/ /\ sent' = <<Reply("session_reset")>>
               /\ p = get_active_agent(config, ACTIVE_AGENT).id]_vars
    /\ [][AssistantStarted' =>
            \E t \in Slots :
                /\ tasks[t].pc = "typing"
                /\ tasks'[t].pc = "wait"
                /\ tasks[t].agent.id \in DOMAIN sessions =>
                      spawned'[1][4] = sessions[tasks[t].agent.id]]_vars

\* A process is started with the first token after a second one was minted
\* for the other persona: the first persona's token was asked for again.
C11_TokenReused ==
    /\ AssistantStarted
    /\ spawned[1][4] = uuid4(1)
    /\ minted = 2
    /\ Len(config.agents) = 2
    /\ DOMAIN sessions = {"coder", "writer"}

\* Every token uuid4() has returned so far.
Issued == {uuid4(n) : n \in 1..minted}

\* C12: for every persona p, reset_session(p) followed by get_session_id(p)
\* returns a token that was never issued before, and that token is the one
\* stored for p afterwards.  In the bridge: /newsession removes the token of
\* the active persona and of no other, and every stored token is an issued
\* one.
C12_FreshAfterReset ==
    /\ \A p \in DOMAIN sessions : sessions[p] \in Issued
    /\ \A p \in PersonaIds :
          LET r == reset_session(sessions, p)
              g == get_session_id(r.sessions, p, minted)
          IN  /\ r.ret <=> p \in DOMAIN sessions
              /\ g.ret \notin Issued
              /\ g.sessions[p] = g.ret
              /\ \A q \in DOMAIN sessions \ {p} : g.sessions[q] = sessions[q]
    /\ ~ENABLED (/\ AnyStep
                 /\ sent' = <<Reply("session_reset")>>
                 /\ ~(LET p == get_active_agent(config, ACTIVE_AGENT).id
                      IN  /\ p \in DOMAIN sessions
                          /\ DOMAIN sessions' = DOMAIN sessions \ {p}
                          /\ minted' = minted))

\* The one persona of the registry runs on its second token: the first was
\* reset.
C12_SecondToken ==
    /\ AssistantStarted
    /\ spawned[1][4] = uuid4(2)
    /\ DOMAIN sessions = {"coder"}
    /\ sessions["coder"] = uuid4(2)

\* What ACTIVE_AGENT can hold: nothing, or an identifier, registered or not.
Pointers ==
    {[k \in {} |-> ""]} \cup {[k \in {"id"} |-> a] : a \in AgentArgs \ {""}}

\* The audit types whose agent is the active persona's name.
PersonaTypes == {"/start", "/status", "/claude", "Freitext", "Foto", "/newsession"}

\* C13: with an empty registry get_active_agent returns the built-in persona
\* "default"; with a registry that lacks the requested identifier (the
\* pointer's, or the configured default when the pointer is unset) it returns
\* the first persona of the registry under that persona's identifier.  The
\* handlers that ask for the active persona name it in their audit call and
\* leave the pointer as it was.
C13_ActiveFallsBack ==
    /\ [](\A a \in Pointers :
            LET r == get_active_agent(config, a)
                requested == IF "id" \in DOMAIN a THEN a["id"] ELSE config.default
            IN  /\ config.agents = <<>> => (r = Builtin /\ r.id = "default")
                /\ (config.agents # <<>> /\ requested \notin Keys(config.agents)) =>
                      (r = config.agents[1] /\ r.id = config.agents[1].id))
    /\ [][(audit' # <<>> /\ audit'[1].type \in PersonaTypes) =>
            /\ audit'[1].agent = get_active_agent(config, ACTIVE_AGENT).name
            /\ ACTIVE_AGENT' = ACTIVE_AGENT]_vars

\* A request was taken for the first persona although neither the pointer
\* nor the configured default names it.
C13_FirstPersonaServed ==
    /\ config.agents # <<>>
    /\ config.default \notin Keys(config.agents)
    /\ ACTIVE_AGENT = [k \in {} |-> ""]
    /\ audit # <<>>
    /\ audit[1].type = "/claude"
    /\ audit[1].agent = config.agents[1].name

\* The /agent commands of the authorized chat that name a persona.
Switches ==
    {u \in Updates : u.kind = "agent" /\ is_authorized(u) /\ u.arg # ""}

\* C14: /agent with an identifier that is not in the registry answers "not
\* found" and leaves the pointer; with a registered identifier it sets the
\* pointer to it, and get_active_agent then returns that persona.  No other
\* step changes the pointer, so the pointer is always unset or a registered
\* identifier.
C14_SwitchOnlyToRegistered ==
    /\ []("id" \in DOMAIN ACTIVE_AGENT => ACTIVE_AGENT["id"] \in Keys(config.agents))
    /\ [][ACTIVE_AGENT' # ACTIVE_AGENT =>
            /\ sent' = <<Reply("agent_switched")>>
            /\ "id" \in DOMAIN ACTIVE_AGENT'
            /\ get_active_agent(config, ACTIVE_AGENT').id = ACTIVE_AGENT'["id"]]_vars
    /\ [][\A u \in Switches :
            (tfa.verified /\ cmd_agent(u)) =>
                IF u.arg \in Keys(config.agents)
                THEN /\ sent' = <<Reply("agent_switched")>>
                     /\ ACTIVE_AGENT' = [k \in {"id"} |-> u.arg]
                ELSE /\ sent' = <<Reply("agent_not_found")>>
                     /\ ACTIVE_AGENT' = ACTIVE_AGENT]_vars

\* The pointer was moved off the configured default to the other persona.
C14_Switched ==
    /\ sent = <<Reply("agent_switched")>>
    /\ config.default = "writer"
    /\ ACTIVE_AGENT = [k \in {"id"} |-> "coder"]

\* The lengths of text tried on split_send.
Lens == OutLens \cup {CHUNK - 1, 2 * CHUNK, 2 * CHUNK + 1}

\* The messages are the slices of a text of n characters, in order, without
\* gap or overlap, each of 1 to CHUNK characters.
Partition(msgs, n) ==
    /\ Len(msgs) >= 1
    /\ msgs[1].lo = 0
    /\ msgs[Len(msgs)].hi = n
    /\ \A k \in 1..Len(msgs) :
          /\ msgs[k].msg = "chunk"
          /\ msgs[k].hi - msgs[k].lo >= 1
          /\ msgs[k].hi - msgs[k].lo <= CHUNK
          /\ k < Len(msgs) => msgs[k + 1].lo = msgs[k].hi

ProcessKinds == {"claude", "text", "photo", "bash"}

\* C16: when the wait for the process runs into the timeout, the timeout
\* message is the only message of that step, and the request has sent no
\* message before it: taking the request and starting its process send
\* nothing to the chat.  No process is started again, the handler ends, and
\* the bridge goes on with gate, pointer and sessions as they were.
C16_TimeoutOneMessage ==
    /\ (\E k \in 1..Len(sent) : sent[k].msg = "timeout") =>
          (sent = <<Reply("timeout")>> /\ spawned = <<>> /\ booted)
    /\ ~ENABLED (/\ AnyStep
                 /\ ~(/\ \A t \in Slots :
                            (/\ tasks'[t] # tasks[t]
                             /\ tasks'[t].pc \in {"typing", "wait"}
                             /\ tasks'[t].kind \in ProcessKinds) => sent' = <<>>
                      /\ sent' = <<Reply("timeout")>> =>
                            /\ \E t \in Slots :
                                  tasks[t].pc = "wait" /\ tasks'[t] = Idle
                            /\ UNCHANGED core))

\* The assistant timed out on a request that had a session.
C16_TimedOut ==
    /\ sent = <<Reply("timeout")>>
    /\ \A t \in Slots : tasks[t] = Idle
    /\ DOMAIN sessions # {}

\* C17: when the assistant is started for a request whose persona has no
\* token, a token never issued before is minted and stored in the same
\* uninterrupted run of the handler that starts the process, the tokens of
\* other personas stay, and the --session-id given to the process is the
\* token stored for the request's persona at that moment.
C17_MintedBeforeStart ==
    ~ENABLED (/\ AnyStep
              /\ AssistantStarted'
              /\ ~(\E t \in Slots :
                      LET p == tasks[t].agent.id
                      IN  /\ tasks[t].pc = "typing"
                          /\ tasks'[t].pc = "wait"
                          /\ p \in DOMAIN sessions'
                          /\ spawned'[1][4] = sessions'[p]
                          /\ tasks'[t].sid = sessions'[p]
                          /\ p \notin DOMAIN sessions =>
                                /\ minted' = minted + 1
                                /\ sessions'[p] = uuid4(minted')
                                /\ sessions'[p] \notin Issued
                                /\ \A q \in DOMAIN sessions :
                                      sessions'[q] = sessions[q]))

\* The first process of the bridge runs on the token just stored.
C17_FirstTokenPassed ==
    /\ AssistantStarted
    /\ tfa.verified
    /\ minted = 1
    /\ DOMAIN sessions = {"coder"}
    /\ spawned[1][4] = uuid4(1)
    /\ sessions["coder"] = spawned[1][4]

\* Two requests to the assistant are suspended before build_claude_cmd, for
\* the same persona, and no token is stored for it.
Racing(t, other) ==
    /\ t # other
    /\ tasks[t].pc = "typing"
    /\ tasks[other].pc = "typing"
    /\ tasks[t].kind \in {"claude", "text", "photo"}
    /\ tasks[other].kind \in {"claude", "text", "photo"}
    /\ tasks[t].agent.id = tasks[other].agent.id
    /\ tasks[t].agent.id \notin DOMAIN sessions

C19_ReplyFollowsCheck ==
    \A u \in Updates :
        ~ENABLED (/\ handle_2fa_check(u)
                  /\ ~(LET accepted == Strip(u.text) = tfa.code /\ now <= tfa.expires
                       IN  /\ (sent' = <<Reply("2fa_ok")>>) <=> accepted
                           /\ (sent' = <<Reply("expired")>>)
                                 <=> (~accepted /\ now' > tfa.expires)
                           /\ (sent' = <<Reply("wrong_code")>>)
                                 <=> (~accepted /\ now' <= tfa.expires)
                           /\ now > tfa.expires => sent' = <<Reply("expired")>>
                           /\ sent' # <<Reply("2fa_ok")>> => ~tfa'.verified))

\* A text was answered "expired" after the code's time was up.
C19_AnsweredExpired ==
    /\ sent = <<Reply("expired")>>
    /\ warned = 2
    /\ tfa.code \in Codes
    /\ now > tfa.expires
    /\ ~tfa.verified

\* C20: a check_code call that returns failure leaves code, expiry and
\* verified as they were: for every input, now and at any later time, in
\* every reachable gate state, verified or not; and on every text the bridge
\* has refused.
C20_FailureChangesNothing ==
    /\ \A inp \in Inputs, t \in now..MaxTime :
          ~check_code(tfa, t, inp).ret => check_code(tfa, t, inp).self = tfa
    /\ \A u \in Updates :
          ~ENABLED (/\ handle_2fa_check(u)
                    /\ sent' # <<Reply("2fa_ok")>>
                    /\ tfa' # tfa)

\* A wrong guess in the last minute of the code left the code in force.
C20_RefusedCodeIntact ==
    /\ sent = <<Reply("wrong_code")>>
    /\ tfa.code \in Codes
    /\ tfa.expires = now
    /\ ~tfa.verified

\* The requests that run the assistant.
AssistantKinds == {"claude", "text", "photo"}

\* The reply the claim gives each kind of failure.
FailureReply(kind) ==
    <<Reply(CASE kind = "timeout" -> "timeout"
              [] kind = "FileNotFoundError" -> "tool_not_found"
              [] OTHER -> "error")>>

\* C21 as the claim states it: in /claude, free text and photo alike a
\* timeout is answered by the timeout message, a missing executable by the
\* "tool not found" message, any other exception by the generic failure
\* message, and that is the only message of the failed request.
C21_EachFailureOwnMessage ==
    [][\A t \in Slots :
          /\ \A launch \in Launches \ {"started"} :
                (claude_launch_on(t, launch) \/ photo_launch_on(t, "fetched", launch))
                    => sent' = FailureReply(launch)
          /\ \A end \in Ends \ {"output"} :
                (process_done_on(t, end) /\ tasks[t].kind \in AssistantKinds)
                    => sent' = FailureReply(end)]_vars

\* The /newsession commands of the authorized chat.
Resets == {u \in Updates : u.kind = "newsession" /\ is_authorized(u)}

\* C22: reset_session(p) returns true exactly when a token was stored for p;
\* afterwards none is stored for p and the token of every other persona is
\* as before; on a persona without a token it returns false and leaves the
\* store as it was.  /newsession does this for the active persona and
\* answers by what reset_session returned.
C22_ResetRemovesOnlyP ==
    /\ \A p \in PersonaIds :
          LET r == reset_session(sessions, p)
          IN  /\ r.ret <=> p \in DOMAIN sessions
              /\ p \notin DOMAIN r.sessions
              /\ DOMAIN r.sessions = DOMAIN sessions \ {p}
              /\ \A q \in DOMAIN sessions \ {p} :
                    q \in DOMAIN r.sessions /\ r.sessions[q] = sessions[q]
              /\ p \notin DOMAIN sessions => (~r.ret /\ r.sessions = sessions)
    /\ \A u \in Resets :
          tfa.verified =>
              ~ENABLED (/\ cmd_newsession(u)
                        /\ ~(LET p == get_active_agent(config, ACTIVE_AGENT).id
                             IN  /\ (sent' = <<Reply("session_reset")>>)
                                       <=> p \in DOMAIN sessions
                                 /\ (sent' = <<Reply("no_session")>>)
                                       <=> p \notin DOMAIN sessions
                                 /\ p \notin DOMAIN sessions'
                                 /\ DOMAIN sessions' = DOMAIN sessions \ {p}
                                 /\ \A q \in DOMAIN sessions \ {p} :
                                       q \in DOMAIN sessions'
                                           /\ sessions'[q] = sessions[q]
                                 /\ minted' = minted))

\* The session of one persona was reset and the other persona kept its
\* token.
C22_OtherTokenKept ==
    /\ sent = <<Reply("session_reset")>>
    /\ get_active_agent(config, ACTIVE_AGENT).id = "coder"
    /\ DOMAIN sessions = {"writer"}
    /\ minted = 2

\* C23 as the claim states it: every update that passes the check of the
\* sender and the check of the gate makes exactly one audit call, and an
\* update refused at either check makes none.
C23_OneAuditPerAccepted ==
    [][\A u \in Updates :
          Dispatch(u) =>
              IF is_authorized(u) /\ tfa.verified
              THEN Len(audit') = 1
              ELSE audit' = <<>>]_vars

\* The audit types of the requests that go on after a suspension.
SuspendingTypes == {"/claude", "Freitext", "Foto", "/bash", "/vorlesen", "/restart"}

\* What the handler of an audited request answers at once, whatever became
\* of the notification.
Answer(type) ==
    CASE type = "/start" -> <<Reply("help")>>
      [] type = "/status" -> <<Reply("status")>>
      [] type = "/agent" -> <<Reply("agent_switched")>>
      [] type = "/restart" -> <<Reply("restarting")>>
      [] type = "/newsession" ->
            <<Reply(IF get_active_agent(config, ACTIVE_AGENT).id \in DOMAIN sessions
                    THEN "session_reset" ELSE "no_session")>>
      [] OTHER -> <<>>

\* C24: whether the audit notification went out or failed shows in nothing
\* but the log.  On every step that makes an audit call the replies, the
\* gate, the pointer, the session store and the suspension of the handler
\* are what the request and the state before it determine, the same for a
\* notification that failed as for one that went out; the failure is one
\* logged warning and is not mentioned to the chat.
C24_AuditFailureSwallowed ==
    ~ENABLED (/\ AnyStep
              /\ audit' # <<>>
              /\ ~(LET a == audit'[1]
                       p == get_active_agent(config, ACTIVE_AGENT).id
                   IN  /\ Len(audit') = 1
                       /\ a.result \in AuditResults
                       /\ warned' = (IF a.result = "failed" THEN 1 ELSE 0)
                       /\ sent' = Answer(a.type)
                       /\ spawned' = <<>>
                       /\ UNCHANGED <<tfa, minted, now>>
                       /\ a.type # "/agent" => ACTIVE_AGENT' = ACTIVE_AGENT
                       /\ a.type = "/agent" => "id" \in DOMAIN ACTIVE_AGENT'
                       /\ sessions' = (IF a.type = "/newsession"
                                       THEN reset_session(sessions, p).sessions
                                       ELSE sessions)
                       /\ IF a.type \in SuspendingTypes
                          THEN \E t \in Slots :
                                  /\ tasks[t].pc = "idle"
                                  /\ tasks'[t].pc = "typing"
                                  /\ \A o \in Slots \ {t} : tasks'[o] = tasks[o]
                          ELSE tasks' = tasks))

\* The notification of a /start failed, and the help text was sent.
C24_HelpDespiteFailure ==
    /\ audit # <<>>
    /\ audit[1].type = "/start"
    /\ audit[1].result = "failed"
    /\ warned = 1
    /\ sent = <<Reply("help")>>

\* The updates of a chat other than ALLOWED_CHAT_ID.
Strangers == {u \in Updates : ~is_authorized(u)}

\* C25 as the claim states it: an update of an unauthorized chat, of whatever
\* kind, logs exactly one warning and is not answered.
C25_OneWarningNoReply ==
    [][\A u \in Strangers :
          Registered(u) => (warned' = 1 /\ sent' = <<>>)]_vars

\* C25, amended: an update of an unauthorized chat is not answered, whatever
\* its kind and whatever the gate; a command or a photo logs exactly one
\* warning, a free text logs two, one in handle_2fa_check and one in
\* handle_message, which both see it.
C25_TextWarnsTwice ==
    \A u \in Strangers :
        ~ENABLED (/\ Registered(u)
                  /\ ~(/\ sent' = <<>>
                       /\ audit' = <<>>
                       /\ spawned' = <<>>
                       /\ warned' = (IF u.kind = "text" THEN 2 ELSE 1)))

\* A stranger's text was dropped with two warnings while the gate was
\* locked.
C25_StrangerTextTwoWarnings ==
    /\ warned = 2
    /\ sent = <<>>
    /\ booted
    /\ ~tfa.verified

\* The options of the assistant's command line that take a value.
Valued == {Arg("--session-id"), Arg("--mcp-config"), Arg("--system-prompt"), Arg("--model")}

\* The options of a command line, read from position i up to the final
\* argument, each with its value (none for a switch).
RECURSIVE Options(_, _)
Options(cmd, i) ==
    IF i >= Len(cmd) THEN <<>>
    ELSE IF cmd[i] \in Valued /\ i + 1 < Len(cmd)
    THEN <<[flag |-> cmd[i], value |-> cmd[i + 1]]>> \o Options(cmd, i + 2)
    ELSE <<[flag |-> cmd[i], value |-> <<>>]>> \o Options(cmd, i + 1)

Given(opts, f) == {k \in 1..Len(opts) : opts[k].flag = Arg(f)}

\* Personas of the shapes the registries lack, tried on build_claude_cmd: a
\* system prompt and no model, and a system prompt that reads like an option.
Shapes ==
    {Persona("coder", "Coder", sp, <<>>) : sp \in {<<"s">>, Arg("--model")}}

Prompts == {<<"x">>, Arg("--model")}

\* The command line is the one the claim describes for this persona, prompt
\* and token.
Invocation(cmd, agent, prompt, token) ==
    LET opts == Options(cmd, 2)
    IN  /\ cmd[1] = Arg("claude")
        /\ Given(opts, "--print") # {}
        /\ Cardinality(Given(opts, "--session-id")) = 1
        /\ \A k \in Given(opts, "--session-id") : opts[k].value = token
        /\ Given(opts, "--system-prompt") # {} <=> agent.system_prompt # <<>>
        /\ \A k \in Given(opts, "--system-prompt") : opts[k].value = agent.system_prompt
        /\ Given(opts, "--model") # {} <=> agent.model # <<>>
        /\ \A k \in Given(opts, "--model") : opts[k].value = agent.model
        /\ cmd[Len(cmd)] = prompt

\* C26: the command line build_claude_cmd returns always has --print and
\* exactly one --session-id, has --system-prompt (with the persona's prompt)
\* if and only if that prompt is not empty, has --model (with the persona's
\* model) if and only if the persona has one, and ends with the request's
\* prompt.  Checked of every command line the bridge started the assistant
\* with (personas with both, with neither, with a model only), and of the
\* function on the store it was called on for the shapes left.
C26_InvocationShape ==
    [][AssistantStarted' =>
          /\ \E t \in Slots :
                /\ tasks[t].pc = "typing"
                /\ tasks'[t].pc = "wait"
                /\ Invocation(spawned'[1], tasks[t].agent, tasks[t].prompt,
                              tasks'[t].sid)
          /\ \A a \in Shapes, pr \in Prompts, mcp \in BOOLEAN :
                LET b == build_claude_cmd(pr, a, sessions, minted, mcp)
                IN  Invocation(b.cmd, a, pr,
                               get_session_id(sessions, a.id, minted).ret)]_vars

\* The assistant was started for the persona without system prompt and
\* model: the command line has neither option.
C26_BareInvocation ==
    /\ AssistantStarted
    /\ Len(spawned[1]) = 6
    /\ spawned[1][2] = Arg("--print")
    /\ spawned[1][6] = <<"x">>
    /\ \E t \in Slots : tasks[t].pc = "wait" /\ tasks[t].agent = Writer

\* The runs of guesses a user may make, one after the other.
GuessRuns == UNION {[1..n -> Inputs] : n \in 0..MaxGuesses}

\* The gate after check_code was called at time t with each guess in turn.
RECURSIVE Attempts(_, _, _)
Attempts(self, t, gs) ==
    IF gs = <<>> THEN self
    ELSE Attempts(check_code(self, t, Head(gs)).self, t, Tail(gs))

\* Every call of the run returned failure.
AllFailed(self, t, gs) ==
    \A k \in 1..Len(gs) :
        ~check_code(Attempts(self, t, SubSeq(gs, 1, k - 1)), t, gs[k]).ret

\* C27: there is no lockout.  After any run of failed check_code calls the
\* gate answers every later check as it would have without them: the stored
\* code, plain or padded, at a time not after the expiry is accepted and
\* sets verified, and no input is answered otherwise than before.  In the
\* bridge: after a refused text the stored code is still accepted up to its
\* expiry.
C27_NoLockout ==
    /\ \A gs \in GuessRuns :
          AllFailed(tfa, now, gs) =>
              LET after == Attempts(tfa, now, gs)
              IN  \A t \in LaterReads(now), inp \in Inputs :
                      /\ check_code(after, t, inp).ret = check_code(tfa, t, inp).ret
                      /\ (Strip(inp) = tfa.code /\ t <= tfa.expires) =>
                            /\ check_code(after, t, inp).ret
                            /\ check_code(after, t, inp).self.verified
    /\ (sent \in {<<Reply("wrong_code")>>, <<Reply("expired")>>} /\ booted) =>
          \A t \in now..tfa.expires :
              /\ check_code(tfa, t, tfa.code).ret
              /\ check_code(tfa, t, tfa.code).self.verified

\* A guess was refused, and the padded code would be accepted in the same
\* minute.
C27_RefusedThenAcceptable ==
    /\ sent = <<Reply("wrong_code")>>
    /\ AllFailed(tfa, now, <<<<"1", "2">>, <<Space>>>>)
    /\ check_code(tfa, now, <<Space>> \o tfa.code \o <<Space>>).ret

\* The handler in slot t is suspended in a request that runs a process.
InProcessRequest(t) ==
    tasks[t].pc \in {"typing", "wait"} /\ tasks[t].kind \in ProcessKinds

Typed == {u \in Updates : u.kind = "text" /\ is_authorized(u)}

\* C29: on the gate as constructed (empty code, minimum expiry, not
\* verified) check_code fails at every time for every input, the empty and
\* the blank one included, and leaves it unverified; the gate stays so until
\* post_init has generated the first code.  Verified becomes true by nothing
\* but a check_code call with the code stored then, made no later than its
\* expiry, which leaves code and expiry alone; it stays true only while the
\* gate is untouched; and whatever changes code or expiry leaves verified
\* false.
C29_VerifiedOnlyByCheck ==
    /\ \A inp \in Inputs, t \in 0..MaxTime :
          /\ ~check_code(TwoFactorAuth, t, inp).ret
          /\ check_code(TwoFactorAuth, t, inp).self = TwoFactorAuth
    /\ ~booted => tfa = TwoFactorAuth
    /\ tfa.verified => (booted /\ tfa.code \in Codes)
    /\ ~ENABLED (/\ AnyStep
                 /\ ~(/\ (~tfa.verified /\ tfa'.verified) =>
                            /\ now <= tfa.expires
                            /\ tfa' = [tfa EXCEPT !.verified = TRUE]
                            /\ \E u \in Typed :
                                  /\ handle_2fa_check(u)
                                  /\ Strip(u.text) = tfa.code
                                  /\ check_code(tfa, now, u.text).ret
                      /\ (tfa.verified /\ tfa'.verified) => tfa' = tfa
                      /\ (tfa'.code # tfa.code \/ tfa'.expires # tfa.expires) =>
                            ~tfa'.verified))

\* The gate was verified with a code that a /2fa had generated after the
\* start-up code.
C29_VerifiedOnSecondCode ==
    /\ tfa.verified
    /\ sent = <<Reply("2fa_ok")>>
    /\ tfa.expires > TTL_MINUTES
    /\ now <= tfa.expires

\* The value the command line gives to option f, if it gives one.
ValueOf(cmd, f) ==
    LET opts == Options(cmd, 2)
    IN  IF Given(opts, f) = {} THEN <<>>
        ELSE opts[CHOOSE k \in Given(opts, f) : TRUE].value

\* C30: the persona of a request to the assistant is resolved once, when
\* the request is taken, and stays with the suspended handler whatever is
\* done to the pointer or to the session store meanwhile; the assistant is
\* then started with the token stored for that very persona and with that
\* persona's system prompt and model.
C30_TokenOfResolvedPersona ==
    /\ [][\A t \in Slots :
            /\ (tasks[t].pc = "idle" /\ tasks'[t].pc = "typing"
                    /\ tasks'[t].kind \in AssistantKinds)
                  => tasks'[t].agent = get_active_agent(config, ACTIVE_AGENT)
            /\ (tasks[t].pc = "typing" /\ tasks'[t].pc # "idle")
                  => tasks'[t].agent = tasks[t].agent]_vars
    /\ [][AssistantStarted' =>
            \E t \in Slots :
                LET a == tasks[t].agent
                IN  /\ tasks[t].pc = "typing"
                    /\ tasks'[t].pc = "wait"
                    /\ a.id \in DOMAIN sessions'
                    /\ ValueOf(spawned'[1], "--session-id") = sessions'[a.id]
                    /\ ValueOf(spawned'[1], "--system-prompt") = a.system_prompt
                    /\ ValueOf(spawned'[1], "--model") = a.model]_vars

\* The pointer was switched to the other persona while a request was
\* suspended, and the assistant was started with the token, the prompt and
\* the model of the persona the request had resolved.
C30_StartedAfterSwitch ==
    /\ AssistantStarted
    /\ \E t \in Slots :
          /\ tasks[t].pc = "wait"
          /\ tasks[t].agent = Writer
          /\ get_active_agent(config, ACTIVE_AGENT) = Coder
          /\ spawned[1][4] = sessions["writer"]
          /\ sessions["writer"] = uuid4(2)
          /\ ValueOf(spawned[1], "--model") = <<>>

====
